---- MODULE Spec2Model ----
(***************************************************************************)
(* Telegram prayer bot (src/bot.py): the monthly prayer-time cache, the    *)
(* per-user job bookkeeping and the command handlers, as a state machine.  *)
(*                                                                         *)
(* Text is modelled as a sequence of one-character strings, so that the    *)
(* parsing and formatting the code does (split, int, slicing, :02) is      *)
(* computed and can fail.  Time is a day number plus a minute of the day.  *)
(***************************************************************************)
EXTENDS Integers, Sequences, FiniteSets, TLC

VARIABLES
    now,            \* datetime.now(moscow): [dn: day number, tod: minute of day]
    db,             \* the user store: chat id -> "none" | "active" | "inactive"
    _prayer_cache,  \* [data, month, year, last_fetched]
    _user_jobs,     \* chat id -> list of that user's Job objects; absent key = no entry
    untracked,      \* Job objects of the queue j that no list of _user_jobs holds
    running,        \* callbacks the scheduler has started and that have not run yet
    pc,             \* "boot" | "polling" | "crashed"
    lib,            \* the python-telegram-bot generation the build uses
    last            \* what the latest step did and returned

vars == <<now, db, _prayer_cache, _user_jobs, untracked, running, pc, lib, last>>

----------------------------------------------------------------------------
(* Bounds of the model *)

\* users known to the model
NumUsers == 1
\* rows per monthly page and days per calendar month in the model's calendar
DaysPerMonth == 2
\* days the scheduler run covers
MaxDays == 3
\* callbacks the scheduler has started that have not run yet
MaxRunning == 1
\* months the cache-only run covers (more than a year)
CacheMonths == 14
\* months the run of the queries covers (a short month, then a long one)
QueryMonths == 2
\* the run with the interrupted callback covers the evening of the first day
\* and the second day up to this prayer of it
RacePrayers == 2
\* jobs in the queue that no list holds, at most
MaxUntracked == 6
\* threads that may be inside get_month_times at once (the dispatcher's and
\* the job queue's)
MaxCallers == 2
\* months the run of the concurrent calls covers
RefreshMonths == 2
\* months the run of the calls that must recover covers
LiveMonths == 3
\* largest number of minutes shift_time is asked to move a time by, either
\* way, besides a move by more than a day
MaxShift == 2

Users == 1..NumUsers

----------------------------------------------------------------------------
(* Python values *)

\* None, where the code holds a list or a datetime otherwise
None == <<>>

prayer_names == <<"Fajr", "Sunrise", "Dhuhr", "Asr", "Maghrib", "Isha">>

NumPrayers == Len(prayer_names)

Digits == <<"0", "1", "2", "3", "4", "5", "6", "7", "8", "9">>

IsDigit(c) == \E i \in 1..Len(Digits) : Digits[i] = c

DigitValue(c) == (CHOOSE i \in 1..Len(Digits) : Digits[i] = c) - 1

Raised == [ok |-> FALSE, v |-> 0]

Ok(x) == [ok |-> TRUE, v |-> x]

\* int(s) for the strings the model builds: one or more decimal digits
RECURSIVE DigitsValue(_)
DigitsValue(s) ==
    IF Len(s) = 0 THEN 0
    ELSE 10 * DigitsValue(SubSeq(s, 1, Len(s) - 1)) + DigitValue(s[Len(s)])

PyInt(s) ==
    IF Len(s) > 0 /\ \A i \in 1..Len(s) : IsDigit(s[i])
    THEN Ok(DigitsValue(s))
    ELSE Raised

\* s.split(':')
RECURSIVE Split(_)
Split(s) ==
    IF \A i \in 1..Len(s) : s[i] # ":" THEN <<s>>
    ELSE LET p == CHOOSE i \in 1..Len(s) :
                      s[i] = ":" /\ \A k \in 1..(i - 1) : s[k] # ":"
         IN  <<SubSeq(s, 1, p - 1)>> \o Split(SubSeq(s, p + 1, Len(s)))

\* s[a:b] with 0 <= a <= b, clipped to the string as Python clips it
Slice(s, a, b) == SubSeq(s, a + 1, IF b < Len(s) THEN b ELSE Len(s))

\* f"{n:02}"
Pad2(n) ==
    IF n < 10 THEN <<"0", Digits[n + 1]>>
    ELSE <<Digits[(n \div 10) + 1], Digits[(n % 10) + 1]>>

HHMM(h, m) == Pad2(h) \o <<":">> \o Pad2(m)

MinutesPerDay == 24 * 60

\* time(hour, minute) and datetime(..., hour, minute) accept only these
ValidClock(h, m) == h \in 0..23 /\ m \in 0..59

\* a shift that moves the minute within its hour
ShiftedWithinHour(hour, minute, delta) ==
    IF ~hour.ok \/ ~minute.ok THEN Raised
    ELSE IF ~ValidClock(hour.v, minute.v) THEN Raised
    ELSE Ok(HHMM(hour.v, (minute.v + delta) % 60))

\* time = datetime(2000, 1, 1, hour, minute) + delta, formatted
Shifted(hour, minute, delta) ==
    IF ~hour.ok \/ ~minute.ok THEN Raised
    ELSE IF ~ValidClock(hour.v, minute.v) THEN Raised
    ELSE Ok(HHMM(((60 * hour.v + minute.v + delta) % MinutesPerDay) \div 60,
                 ((60 * hour.v + minute.v + delta) % MinutesPerDay) % 60))

ShiftParts(parts, delta) ==
    IF Len(parts) < 2 THEN Raised
    ELSE Shifted(PyInt(parts[1]), PyInt(parts[2]), delta)

shift_time(time_str, delta) == ShiftParts(Split(time_str), delta)

----------------------------------------------------------------------------
(* The calendar of the model: the months that have 31 days have one day     *)
(* more than the others, which have DaysPerMonth days.  Day number 0 is    *)
(* the first day of a November, so that a short month is followed by a     *)
(* long one and the year ends within the first months.                     *)

Epoch == [year |-> 2024, month |-> 11]

MonthLength(m) ==
    IF m \in {1, 3, 5, 7, 8, 10, 12} THEN DaysPerMonth + 1 ELSE DaysPerMonth

\* the month (counted from January of the first year) and the day of the
\* month of the day that comes dn days after the first day of month i
RECURSIVE Locate(_, _)
Locate(dn, i) ==
    IF dn < MonthLength((i % 12) + 1) THEN [index |-> i, day |-> dn + 1]
    ELSE Locate(dn - MonthLength((i % 12) + 1), i + 1)

MonthIndex(dn) == Locate(dn, Epoch.month - 1).index

MonthOf(dn) == (MonthIndex(dn) % 12) + 1

YearOf(dn) == Epoch.year + (MonthIndex(dn) \div 12)

DayOf(dn) == Locate(dn, Epoch.month - 1).day

\* monthrange(now.year, now.month)[1]
days_in_month(dn) == MonthLength(MonthOf(dn))

\* the number of the first day of the month that starts n months after the
\* first one
RECURSIVE FirstDay(_)
FirstDay(n) ==
    IF n = 0 THEN 0 ELSE FirstDay(n - 1) + MonthLength(((Epoch.month + n - 2) % 12) + 1)

----------------------------------------------------------------------------
(* What the prayer-time page can hold: one row of eight cells per day, the  *)
(* six times in cells 3..8.  The site shows the page of the current month; *)
(* the pages of consecutive months differ, and so do the rows of a page.   *)
(* The request may fail.                                                   *)

\* minute of the day of each prayer on the earliest row
BaseTod == <<3 * 60 + 2, 5 * 60, 12 * 60 + 30, 15 * 60 + 45, 19 * 60 + 58, 22 * 60>>

\* minutes by which row d of the page of month m is later than BaseTod; only
\* the third prayer moves, from row to row and from month to month
RowOffset(m, d, k) == IF k # 3 THEN 0 ELSE (d + m + 1) % 2

PageCell(m, d, k) ==
    LET t == BaseTod[k] + RowOffset(m, d, k)
    IN  HHMM(t \div 60, t % 60)

PageRow(m, d) ==
    <<Pad2(d), <<"d">>>> \o [k \in 1..NumPrayers |-> PageCell(m, d, k)]

Page(m) == [d \in 1..MonthLength(m) |-> PageRow(m, d)]

\* the request or the search for the table raises
FetchFailed == [ok |-> FALSE, rows |-> <<>>]

\* a page whose first row shows dashes instead of the first prayer's time
Dashes == <<"-", "-", ":", "-", "-">>

GarbledPage(m) == [Page(m) EXCEPT ![1][3] = Dashes]

\* a page whose rows all have too few cells
ShortPage(m) == [d \in 1..MonthLength(m) |-> SubSeq(PageRow(m, d), 1, 7)]

\* what requests.get and the table search can come back with at time t
FetchOutcomes(t) ==
    {FetchFailed} \cup
    {[ok |-> TRUE, rows |-> rows] :
        rows \in {Page(MonthOf(t.dn)), GarbledPage(MonthOf(t.dn)), ShortPage(MonthOf(t.dn))}}

\* the loop over the table rows: rows with fewer than 8 cells are skipped,
\* a time that shift_time rejects ends the loop with the exception
\* prayers.append(tmp) after the two adjustments, or the exception
Adjusted(tmp, fajr, maghrib, rest) ==
    IF ~fajr.ok \/ ~maghrib.ok \/ ~rest.ok THEN Raised
    ELSE Ok(<<[tmp EXCEPT ![1] = fajr.v, ![5] = maghrib.v]>> \o rest.v)

ParseRow(tmp, rest) ==
    Adjusted(tmp, shift_time(tmp[1], -2), shift_time(tmp[5], 2), rest)

RECURSIVE ParseRows(_)
ParseRows(rows) ==
    IF Len(rows) = 0 THEN Ok(<<>>)
    ELSE IF Len(Head(rows)) < 8 THEN ParseRows(Tail(rows))
    ELSE ParseRow(Slice(Head(rows), 2, 8), ParseRows(Tail(rows)))

\* np.array(prayers).T.tolist()
Transpose(prayers) ==
    [k \in 1..NumPrayers |-> [d \in 1..Len(prayers) |-> prayers[d][k]]]

EmptyCache == [data |-> None, month |-> 0, year |-> 0, last_fetched |-> None]

\* a refresh test that also refreshes a table fetched on an earlier day
NeedsRefreshDaily(cache, t) ==
    \/ cache.data = None
    \/ cache.month # MonthOf(t.dn)
    \/ cache.year # YearOf(t.dn)
    \/ cache.last_fetched.dn # t.dn

\* a refresh test that looks at the month only
NeedsRefreshMonthOnly(cache, t) ==
    \/ cache.data = None
    \/ cache.month # MonthOf(t.dn)

NeedsRefresh(cache, t) ==
    \/ cache.data = None
    \/ cache.month # MonthOf(t.dn)
    \/ cache.year # YearOf(t.dn)

\* the outcomes of the request a call of get_month_times at time t makes; a
\* call that finds the cache current makes no request
RequestOutcomes(cache, t) ==
    IF NeedsRefresh(cache, t) THEN FetchOutcomes(t) ELSE {FetchFailed}

\* get_month_times with the cache key written before the request is made
RefreshKeyedFirst(cache, t, parsed) ==
    IF parsed.ok /\ Len(parsed.v) > 0
    THEN [cache |-> [data |-> Transpose(parsed.v), month |-> MonthOf(t.dn),
                     year |-> YearOf(t.dn), last_fetched |-> t],
          ret |-> Ok(Transpose(parsed.v)), fetches |-> 1,
          failed |-> FALSE, had |-> cache.data # None]
    ELSE IF cache.data # None
    THEN [cache |-> [cache EXCEPT !.month = MonthOf(t.dn), !.year = YearOf(t.dn)],
          ret |-> Ok(cache.data), fetches |-> 1, failed |-> TRUE, had |-> TRUE]
    ELSE [cache |-> cache, ret |-> Raised, fetches |-> 1, failed |-> TRUE,
          had |-> FALSE]

get_month_times_keyed_first(cache, t, fetch) ==
    IF ~NeedsRefresh(cache, t)
    THEN [cache |-> cache, ret |-> Ok(cache.data), fetches |-> 0, failed |-> FALSE,
          had |-> TRUE]
    ELSE RefreshKeyedFirst(cache, t, IF fetch.ok THEN ParseRows(fetch.rows) ELSE Raised)

\* [cache: the cache afterwards, ret: the returned table or the exception,
\*  fetches: requests made, failed: the except branch ran,
\*  had: a table was cached when the call began]
\* the "Update cache" assignments, given the table built from the rows
Updated(cache, t, data) ==
    [cache |-> [data |-> data, month |-> MonthOf(t.dn), year |-> YearOf(t.dn),
                last_fetched |-> t],
     ret |-> Ok(data), fetches |-> 1, failed |-> FALSE, had |-> cache.data # None]

\* the try block and its except branch, given what the loop over the rows
\* came to
Refresh(cache, t, parsed) ==
    IF parsed.ok /\ Len(parsed.v) > 0
    THEN Updated(cache, t, Transpose(parsed.v))
    ELSE IF cache.data # None
    THEN [cache |-> cache, ret |-> Ok(cache.data), fetches |-> 1, failed |-> TRUE,
          had |-> TRUE]
    ELSE [cache |-> cache, ret |-> Raised, fetches |-> 1, failed |-> TRUE,
          had |-> FALSE]

get_month_times(cache, t, fetch) ==
    IF ~NeedsRefresh(cache, t)
    THEN [cache |-> cache, ret |-> Ok(cache.data), fetches |-> 0, failed |-> FALSE,
          had |-> TRUE]
    ELSE Refresh(cache, t, IF fetch.ok THEN ParseRows(fetch.rows) ELSE Raised)

----------------------------------------------------------------------------
(* The job queue.  A handler runs at one reading of the clock.  A Job       *)
(* object is a record; _user_jobs holds the objects, and an object is in   *)
(* the queue j while its field scheduled is TRUE.  A one-shot job that ran *)
(* keeps nothing the program reads afterwards.                             *)

Midnight == 0

NoTime == [dn |-> -1, tod |-> -1]

\* the world a handler works on: w.uj = _user_jobs, w.cache = _prayer_cache,
\* w.untracked = untracked
World == [uj |-> _user_jobs, cache |-> _prayer_cache, untracked |-> untracked]

Put(f, key, val) == [x \in DOMAIN f \cup {key} |-> IF x = key THEN val ELSE f[x]]

Drop(f, key) == [x \in DOMAIN f \ {key} |-> f[x]]

\* list.remove(x): without the first element equal to x
RemoveFirst(seq, x) ==
    IF \A i \in 1..Len(seq) : seq[i] # x THEN seq
    ELSE LET p == CHOOSE i \in 1..Len(seq) :
                      seq[i] = x /\ \A k \in 1..(i - 1) : seq[k] # x
         IN  SubSeq(seq, 1, p - 1) \o SubSeq(seq, p + 1, Len(seq))

\* j.run_once(callback, when) for a time of day: today if that time is still
\* ahead; python-telegram-bot 13 moves a time <= now to the next day,
\* python-telegram-bot 12 only a time < now
run_once_shifts(tod, t) == IF lib = "v13" THEN tod <= t.tod ELSE tod < t.tod

run_once_due(tod, t) ==
    IF run_once_shifts(tod, t) THEN [dn |-> t.dn + 1, tod |-> tod]
    ELSE [dn |-> t.dn, tod |-> tod]

\* j.run_daily(callback, time(0, 0)): the first midnight that is not past
run_daily_due(t) ==
    IF Midnight < t.tod THEN [dn |-> t.dn + 1, tod |-> Midnight]
    ELSE [dn |-> t.dn, tod |-> Midnight]

IsDue(job, t) ==
    /\ job.scheduled
    /\ job.due.dn < t.dn \/ (job.due.dn = t.dn /\ job.due.tod <= t.tod)

\* j, the job queue: the jobs of a user that are scheduled
job_queue(uj, u) ==
    IF u \in DOMAIN uj THEN {i \in 1..Len(uj[u]) : uj[u][i].scheduled} ELSE {}

\* job.schedule_removal(): TRUE if it returns, FALSE if it raises.  A job that
\* is no longer scheduled (a one-shot job that ran) makes python-telegram-bot
\* 13 raise JobLookupError; python-telegram-bot 12 only sets a flag.
schedule_removal_returns(job) == job.scheduled \/ lib = "v12"

\* a loop that ends at the first job whose removal raises
RECURSIVE CancelLoopStops(_, _, _)
CancelLoopStops(w, user_id, copy) ==
    IF Len(copy) = 0 THEN w
    ELSE IF schedule_removal_returns(Head(copy))
    THEN CancelLoopStops([w EXCEPT !.uj[user_id] = RemoveFirst(@, Head(copy))],
                         user_id, Tail(copy))
    ELSE w

\* the loop of cancel_user_jobs over the copy of the list
RECURSIVE CancelLoop(_, _, _)
CancelLoop(w, user_id, copy) ==
    IF Len(copy) = 0 THEN w
    ELSE LET job == Head(copy)
         IN  IF schedule_removal_returns(job)
             THEN CancelLoop([w EXCEPT !.uj[user_id] = RemoveFirst(@, job)],
                             user_id, Tail(copy))
             ELSE CancelLoop(w, user_id, Tail(copy))

\* "Clean up empty lists"
CleanUp(w, user_id) ==
    IF Len(w.uj[user_id]) = 0 THEN [w EXCEPT !.uj = Drop(w.uj, user_id)] ELSE w

cancel_user_jobs(w, user_id) ==
    IF user_id \in DOMAIN w.uj
    THEN CleanUp(CancelLoop(w, user_id, w.uj[user_id]), user_id)
    ELSE w

\* if str(uid) not in _user_jobs: _user_jobs[str(uid)] = []
EnsureEntry(w, uid) ==
    IF uid \in DOMAIN w.uj THEN w ELSE [w EXCEPT !.uj = Put(w.uj, uid, <<>>)]

\* _user_jobs[str(uid)].append(job)
Register(w, uid, job) == [w EXCEPT !.uj[uid] = Append(@, job)]

DailyJob(uid, t) ==
    [callback |-> "register_todays_prayers", chat_id |-> uid, prayer_name |-> "",
     daily |-> TRUE, due |-> run_daily_due(t), scheduled |-> TRUE]

PrayerJob(uid, name, tod, t) ==
    [callback |-> "remind_next_prayer", chat_id |-> uid, prayer_name |-> name,
     daily |-> FALSE, due |-> run_once_due(tod, t), scheduled |-> TRUE]

\* a one-shot job after the scheduler took it out of the queue to run it
RanJob(job) == [job EXCEPT !.scheduled = FALSE, !.prayer_name = "", !.due = NoTime]

\* [int(x) for x in prayer_time.split(':')] and time(*timestamp): the minute
\* of the day, or the exception
\* time(*timestamp)
TimeOf(hour, minute, second) ==
    IF ValidClock(hour, minute) /\ second \in 0..59 THEN Ok(60 * hour + minute)
    ELSE Raised

TimeOfInts(ints) ==
    IF \E i \in 1..Len(ints) : ~ints[i].ok THEN Raised
    ELSE IF Len(ints) > 4 THEN Raised
    ELSE TimeOf(ints[1].v,
                IF Len(ints) >= 2 THEN ints[2].v ELSE 0,
                IF Len(ints) >= 3 THEN ints[3].v ELSE 0)

IntsOf(parts) == [i \in 1..Len(parts) |-> PyInt(parts[i])]

ParseTimeOfDay(prayer_time) == TimeOfInts(IntsOf(Split(prayer_time)))

\* a test that also skips the prayer whose time is now
IsPastOrNow(timestamp, t) == timestamp <= t.tod

\* "Don't register past prayers": the test that skips a prayer
IsPast(timestamp, t) == timestamp < t.tod

\* the loop of register_todays_prayers over zip(prayer_names, prayer_times),
\* from the k-th prayer on.  r = [w, exc, registered, ...]
RECURSIVE RegisterLoop(_, _, _, _, _), RegisterStep(_, _, _, _, _, _)
RegisterLoop(r, uid, prayer_times, t, k) ==
    IF k > NumPrayers \/ k > Len(prayer_times) THEN r
    ELSE IF DayOf(t.dn) > Len(prayer_times[k]) THEN [r EXCEPT !.exc = TRUE]
    ELSE RegisterStep(r, uid, prayer_times, t, k,
                      ParseTimeOfDay(prayer_times[k][(DayOf(t.dn) - 1) + 1]))

\* one pass of the loop body, given the timestamp of the k-th prayer; with
\* no entry of the user in _user_jobs the append raises KeyError after
\* run_once has put the job in the queue
RegisterStep(r, uid, prayer_times, t, k, timestamp) ==
    IF ~timestamp.ok THEN [r EXCEPT !.exc = TRUE]
    ELSE IF IsPast(timestamp.v, t)
    THEN RegisterLoop(r, uid, prayer_times, t, k + 1)
    ELSE IF uid \notin DOMAIN r.w.uj
    THEN [r EXCEPT !.exc = TRUE,
                   !.w.untracked = Append(@, PrayerJob(uid, prayer_names[k],
                                                       timestamp.v, t))]
    ELSE RegisterLoop(
             [r EXCEPT !.w = Register(r.w, uid,
                                      PrayerJob(uid, prayer_names[k], timestamp.v, t)),
                       !.registered = Append(r.registered, k)],
             uid, prayer_times, t, k + 1)

\* [w: the world afterwards, exc: an exception left the function,
\*  registered: the prayers a job was registered for, in order,
\*  fetches: requests made, ran: the function got past the active check]
\* the function from the call of get_month_times on, given what that call
\* did (g)
RegisterFrom(w, uid, t, g) ==
    IF ~g.ret.ok
    THEN [w |-> [w EXCEPT !.cache = g.cache], exc |-> TRUE, registered |-> <<>>,
          fetches |-> g.fetches, ran |-> TRUE]
    ELSE RegisterLoop([w |-> [w EXCEPT !.cache = g.cache], exc |-> FALSE,
                       registered |-> <<>>, fetches |-> g.fetches, ran |-> TRUE],
                      uid, g.ret.v, t, 1)

\* a callback that does not look at the active flag of a stored user
register_regardless(w, store, uid, t, fetch) ==
    IF store[uid] = "none"
    THEN [w |-> w, exc |-> TRUE, registered |-> <<>>, fetches |-> 0, ran |-> FALSE]
    ELSE RegisterFrom(EnsureEntry(w, uid), uid, t, get_month_times(w.cache, t, fetch))

register_todays_prayers(w, store, uid, t, fetch) ==
    IF store[uid] # "active"
    THEN [w |-> w, exc |-> store[uid] = "none", registered |-> <<>>, fetches |-> 0,
          ran |-> FALSE]
    ELSE RegisterFrom(EnsureEntry(w, uid), uid, t, get_month_times(w.cache, t, fetch))

----------------------------------------------------------------------------
(* The clock.  It stops at midnight, at every prayer time any page holds    *)
(* and one minute after each, so that a handler can run before, at and     *)
(* after every prayer.                                                     *)

PrayerTods ==
    {ParseTimeOfDay(Transpose(ParseRows(Page(m)).v)[k][d]).v :
        m \in 1..12, k \in 1..NumPrayers, d \in 1..DaysPerMonth}

ClockPoints == {Midnight} \cup PrayerTods \cup {t + 1 : t \in PrayerTods}

LaterPoints(tod) == {p \in ClockPoints : p > tod}

NextInstant(t) ==
    IF LaterPoints(t.tod) = {} THEN [dn |-> t.dn + 1, tod |-> Midnight]
    ELSE [dn |-> t.dn,
          tod |-> CHOOSE p \in LaterPoints(t.tod) : \A q \in LaterPoints(t.tod) : p <= q]

After(a, b) == a.dn > b.dn \/ (a.dn = b.dn /\ a.tod > b.tod)

NoReply == [kind |-> "", label |-> "", at |-> NoTime]

Reply(kind) == [NoReply EXCEPT !.kind = kind]

\* the record of a step: the handler, its chat, whether an exception left it,
\* the requests get_month_times made, what it returned, the prayers a job was
\* registered for, the message sent back, the arguments of a function that
\* is called on its own, and whether register_todays_prayers raised (which
\* the caller may not see)
Last(op, uid) ==
    [op |-> op, uid |-> uid, exc |-> FALSE, fetches |-> 0, failed |-> FALSE,
     had |-> FALSE, ret |-> Raised, ran |-> FALSE, registered |-> <<>>, req |-> "",
     reply |-> NoReply, arg |-> <<>>, raised |-> FALSE]

StoreStates == {"none", "active", "inactive"}

\* the process starts in the middle of the day, after the third prayer
StartTods == {BaseTod[3] + 1}

Init ==
    /\ now \in {[dn |-> 0, tod |-> p] : p \in StartTods}
    /\ db \in [Users -> StoreStates]
    /\ _prayer_cache = EmptyCache
    /\ _user_jobs = <<>>
    /\ untracked = <<>>
    /\ running = <<>>
    /\ pc = "boot"
    /\ lib \in {"v12", "v13"}
    /\ last = Last("init", 0)

Install(w) ==
    /\ _user_jobs' = w.uj
    /\ _prayer_cache' = w.cache
    /\ untracked' = w.untracked

\* Job.run(dispatcher): python-telegram-bot 13 catches what the callback
\* raises, python-telegram-bot 12 lets it through to the caller
job_run_raises(r) == r.exc /\ lib = "v12"

\* the start-up loop over db.list_users(), from user u on.
\* b = [w, crashed]
RECURSIVE BootLoop(_, _, _)
\* the loop goes on with what job.run left, or ends with its exception
AfterRun(r) == [w |-> r.w, crashed |-> job_run_raises(r)]

BootLoop(b, u, fetch) ==
    IF u > NumUsers \/ b.crashed THEN b
    ELSE IF db[u] = "none" THEN BootLoop(b, u + 1, fetch)
    ELSE BootLoop(AfterRun(register_todays_prayers(
                               Register(EnsureEntry(b.w, u), u, DailyJob(u, now)),
                               db, u, now, fetch[u])),
                  u + 1, fetch)

Boot ==
    /\ pc = "boot"
    /\ \E fetch \in [Users -> FetchOutcomes(now)] :
         \E b \in {BootLoop([w |-> World, crashed |-> FALSE], 1, fetch)} :
             /\ Install(b.w)
             /\ pc' = IF b.crashed THEN "crashed" ELSE "polling"
             /\ last' = [Last("boot", 0) EXCEPT !.exc = b.crashed]
    /\ UNCHANGED <<now, db, running, lib>>

\* what start does: [w, store, last]
\* start after job.run(dispatcher), given what the run did (r)
Started(store, u, r) ==
    [w |-> r.w, store |-> store,
     last |-> [Last("start", u) EXCEPT
                 !.exc = job_run_raises(r),
                 !.raised = r.exc,
                 !.fetches = r.fetches,
                 !.ran = r.ran,
                 !.registered = r.registered,
                 !.reply = IF job_run_raises(r) THEN NoReply ELSE Reply("started")]]

\* start after cancel_user_jobs, given the world it left (w) and the store
\* with the user added or set active (store1)
Activate(w, store1, u, t, fetch) ==
    Started(store1, u,
            register_todays_prayers(Register(EnsureEntry(w, u), u, DailyJob(u, t)),
                                    store1, u, t, fetch))

start(w, store, u, t, fetch) ==
    IF store[u] = "active"
    THEN [w |-> cancel_user_jobs(w, u), store |-> store,
          last |-> [Last("start", u) EXCEPT !.reply = Reply("already activated")]]
    ELSE Activate(cancel_user_jobs(w, u), [store EXCEPT ![u] = "active"], u, t, fetch)

\* /start
Start(u) ==
    /\ pc = "polling"
    /\ \E fetch \in RequestOutcomes(_prayer_cache, now) :
         \E res \in {start(World, db, u, now, fetch)} :
             /\ Install(res.w)
             /\ db' = res.store
             /\ last' = res.last
    /\ UNCHANGED <<now, running, pc, lib>>

\* what stop does; db.set_active updates a document that must exist
stop(w, store, u) ==
    IF store[u] = "none"
    THEN [w |-> w, store |-> store, last |-> [Last("stop", u) EXCEPT !.exc = TRUE]]
    ELSE [w |-> cancel_user_jobs(w, u),
          store |-> [store EXCEPT ![u] = "inactive"],
          last |-> [Last("stop", u) EXCEPT !.reply = Reply("stopped")]]

\* /stop
Stop(u) ==
    /\ pc = "polling"
    /\ \E res \in {stop(World, db, u)} :
         /\ Install(res.w)
         /\ db' = res.store
         /\ last' = res.last
    /\ UNCHANGED <<now, running, pc, lib>>

\* the scheduler starts the callback of a job that is due: a one-shot job
\* leaves the queue, a daily job gets its next midnight
JobDue(u, i) ==
    /\ pc = "polling"
    /\ u \in DOMAIN _user_jobs
    /\ i \in 1..Len(_user_jobs[u])
    /\ IsDue(_user_jobs[u][i], now)
    /\ Len(running) < MaxRunning
    /\ running' = Append(running, [callback |-> _user_jobs[u][i].callback,
                                   chat_id |-> _user_jobs[u][i].chat_id,
                                   prayer_name |-> _user_jobs[u][i].prayer_name])
    /\ _user_jobs' = IF _user_jobs[u][i].daily
                     THEN [_user_jobs EXCEPT ![u][i].due = [dn |-> now.dn + 1, tod |-> Midnight]]
                     ELSE [_user_jobs EXCEPT ![u][i] = RanJob(@)]
    /\ last' = Last("due", u)
    /\ UNCHANGED <<now, db, _prayer_cache, untracked, pc, lib>>

PrayerIndex(name) == CHOOSE k \in 1..NumPrayers : prayer_names[k] = name

RemoveAt(seq, i) == SubSeq(seq, 1, i - 1) \o SubSeq(seq, i + 1, Len(seq))

\* a callback that sends to every stored user, active or not
remind_sends_to_stored(store, chat_id) == store[chat_id] # "none"

\* the callback of a one-shot job: TRUE if the message is sent
remind_sends(store, chat_id) == store[chat_id] = "active"

remind_next_prayer(i) ==
    /\ pc = "polling"
    /\ i \in 1..Len(running)
    /\ running[i].callback = "remind_next_prayer"
    /\ running' = RemoveAt(running, i)
    /\ last' = IF remind_sends(db, running[i].chat_id)
               THEN [Last("remind", running[i].chat_id) EXCEPT
                       !.ran = TRUE, !.req = running[i].prayer_name,
                       !.reply = Reply("time for")]
               ELSE [Last("remind", running[i].chat_id) EXCEPT
                       !.exc = (db[running[i].chat_id] = "none"),
                       !.req = running[i].prayer_name]
    /\ UNCHANGED <<now, db, _prayer_cache, _user_jobs, untracked, pc, lib>>

\* the callback of the daily job; the scheduler logs what it raises
RunRegisterTodaysPrayers(i) ==
    /\ pc = "polling"
    /\ i \in 1..Len(running)
    /\ running[i].callback = "register_todays_prayers"
    /\ running' = RemoveAt(running, i)
    /\ \E fetch \in RequestOutcomes(_prayer_cache, now) :
         \E res \in {register_todays_prayers(World, db, running[i].chat_id, now, fetch)} :
             /\ Install(res.w)
             /\ last' = [Last("register", running[i].chat_id) EXCEPT
                           !.exc = res.exc, !.raised = res.exc,
                           !.fetches = res.fetches,
                           !.ran = res.ran, !.registered = res.registered]
    /\ UNCHANGED <<now, db, pc, lib>>

\* time passes to the next instant once every due job has been started and
\* every started callback has run
Tick ==
    /\ pc = "polling"
    /\ Len(running) = 0
    /\ \A u \in DOMAIN _user_jobs : \A i \in 1..Len(_user_jobs[u]) :
          ~IsDue(_user_jobs[u][i], now)
    /\ NextInstant(now).dn < MaxDays
    /\ now' = NextInstant(now)
    /\ last' = Last("tick", 0)
    /\ UNCHANGED <<db, _prayer_cache, _user_jobs, untracked, running, pc, lib>>

Next ==
    \/ Boot
    \/ \E u \in Users : Start(u)
    \/ \E u \in Users : Stop(u)
    \/ \E u \in Users, i \in 1..(7 * MaxDays + 7) : JobDue(u, i)
    \/ \E i \in 1..MaxRunning : remind_next_prayer(i)
    \/ \E i \in 1..MaxRunning : RunRegisterTodaysPrayers(i)
    \/ Tick

Spec == Init /\ [][Next]_vars

----------------------------------------------------------------------------
(* /next *)

\* with_time: now.replace(day=day, hour=int(p_time[:2]), minute=int(p_time[3:]))
with_time(p_time, dn) ==
    LET hour == PyInt(Slice(p_time, 0, 2))
        minute == PyInt(Slice(p_time, 3, Len(p_time)))
    IN  IF hour.ok /\ minute.ok /\ ValidClock(hour.v, minute.v)
        THEN Ok([dn |-> dn, tod |-> 60 * hour.v + minute.v])
        ELSE Raised

\* [with_time(time[row], day) for time in times], or the exception
DayTimes(times, row, dn) ==
    LET each == [k \in 1..Len(times) |->
                    IF row + 1 > Len(times[k]) THEN Raised
                    ELSE with_time(times[k][row + 1], dn)]
    IN  IF \E k \in 1..Len(times) : ~each[k].ok THEN Raised
        ELSE Ok([k \in 1..Len(times) |-> each[k].v])

\* the list prayer_times: today's prayers, then tomorrow's unless today is
\* the last day of the month
BuildPrayerTimes(times, t) ==
    LET today == DayOf(t.dn)
        tomorrow == today + 1
        first == DayTimes(times, today - 1, t.dn)
    IN  IF ~first.ok THEN Raised
        ELSE IF tomorrow < days_in_month(t.dn) + 1
        THEN LET second == DayTimes(times, tomorrow - 1, t.dn + 1)
             IN  IF ~second.ok THEN Raised ELSE Ok(first.v \o second.v)
        ELSE first

Requests == {""} \cup {prayer_names[k] : k \in 1..NumPrayers} \cup {"Jumuah"}

IsPrayerName(x) == \E k \in 1..NumPrayers : prayer_names[k] = x

\* the first entry that is not before now
FirstNotBefore(prayer_times, t) ==
    IF \A i \in 1..Len(prayer_times) : After(t, prayer_times[i]) THEN 0
    ELSE CHOOSE i \in 1..Len(prayer_times) :
             /\ ~After(t, prayer_times[i])
             /\ \A k \in 1..(i - 1) : After(t, prayer_times[k])

\* next((p_time for p_time in prayer_times if p_time > now), None), as the
\* position in the list, 0 for None
FirstAfter(prayer_times, t) ==
    IF \A i \in 1..Len(prayer_times) : ~After(prayer_times[i], t) THEN 0
    ELSE CHOOSE i \in 1..Len(prayer_times) :
             /\ After(prayer_times[i], t)
             /\ \A k \in 1..(i - 1) : ~After(prayer_times[k], t)

\* prayer_times.index(x), 1-based
IndexOf(prayer_times, x) ==
    CHOOSE i \in 1..Len(prayer_times) :
        prayer_times[i] = x /\ \A k \in 1..(i - 1) : prayer_times[k] # x

\* the position in prayer_times the requested prayer is answered from
\* (prayer_names.index(requested_prayer) + 1, 0-based), 0 if beyond the list
RequestedPosition(prayer_times, requested_prayer) ==
    LET prayer_idx == PrayerIndex(requested_prayer) - 1
    IN  IF prayer_idx + 1 < Len(prayer_times) THEN prayer_idx + 2 ELSE 0

\* the message send_next_prayer sends, given the list it built
NextPrayerReply(prayer_times, t, requested_prayer) ==
    IF requested_prayer # "" /\ ~IsPrayerName(requested_prayer)
    THEN Reply("unknown value")
    ELSE IF requested_prayer = ""
    THEN LET i == FirstAfter(prayer_times, t)
         IN  IF i = 0
             THEN [kind |-> "cannot find", label |-> "prayer", at |-> NoTime]
             ELSE [kind |-> "next is", at |-> prayer_times[i],
                   label |-> prayer_names[((IndexOf(prayer_times, prayer_times[i]) - 1)
                                              % NumPrayers) + 1]]
    ELSE LET i == RequestedPosition(prayer_times, requested_prayer)
         IN  IF i = 0
             THEN [kind |-> "cannot find", label |-> requested_prayer, at |-> NoTime]
             ELSE [kind |-> "next is", label |-> requested_prayer, at |-> prayer_times[i]]

send_next_prayer(u, requested_prayer) ==
    /\ pc = "polling"
    /\ \E fetch \in RequestOutcomes(_prayer_cache, now) :
         \E g \in {get_month_times(_prayer_cache, now, fetch)} :
         \E prayer_times \in {IF g.ret.ok THEN BuildPrayerTimes(g.ret.v, now) ELSE Raised} :
             /\ _prayer_cache' = g.cache
             /\ last' = [Last("next", u) EXCEPT
                           !.fetches = g.fetches,
                           !.req = requested_prayer,
                           !.exc = ~prayer_times.ok,
                           !.ran = prayer_times.ok,
                           !.reply = IF prayer_times.ok
                                     THEN NextPrayerReply(prayer_times.v, now, requested_prayer)
                                     ELSE NoReply]
    /\ UNCHANGED <<now, db, _user_jobs, untracked, running, pc, lib>>

\* the instants of the run that asks for the next prayer
NextPrayerInit ==
    /\ now = [dn |-> 0, tod |-> Midnight]
    /\ db = [u \in Users |-> "none"]
    /\ _prayer_cache = EmptyCache
    /\ _user_jobs = <<>>
    /\ untracked = <<>>
    /\ running = <<>>
    /\ pc = "polling"
    /\ lib = "v13"
    /\ last = Last("init", 0)

NextPrayerClock ==
    /\ NextInstant(now).dn < MaxDays
    /\ now' = NextInstant(now)
    /\ last' = Last("tick", 0)
    /\ UNCHANGED <<db, _prayer_cache, _user_jobs, untracked, running, pc, lib>>

NextPrayerNext ==
    \/ \E q \in Requests : send_next_prayer(1, q)
    \/ NextPrayerClock

NextPrayerSpec == NextPrayerInit /\ [][NextPrayerNext]_vars

----------------------------------------------------------------------------
(* The cache alone: get_month_times called at any time of any month, by any *)
(* caller, with any outcome of the request.                                *)

CacheInit == NextPrayerInit

CallGetMonthTimes ==
    /\ \E fetch \in RequestOutcomes(_prayer_cache, now) :
         \E g \in {get_month_times(_prayer_cache, now, fetch)} :
             /\ _prayer_cache' = g.cache
             /\ last' = [Last("get_month_times", 0) EXCEPT
                           !.fetches = g.fetches, !.failed = g.failed,
                           !.had = g.had, !.ret = g.ret, !.exc = ~g.ret.ok, !.ran = TRUE]
    /\ UNCHANGED <<now, db, _user_jobs, untracked, running, pc, lib>>

\* any later day of the first CacheMonths months, at either of two instants
\* of it
CacheClock ==
    /\ \E dn \in now.dn..(FirstDay(CacheMonths) - 1), p \in {Midnight, Midnight + 1} :
         /\ After([dn |-> dn, tod |-> p], now)
         /\ now' = [dn |-> dn, tod |-> p]
    /\ last' = Last("tick", 0)
    /\ UNCHANGED <<db, _prayer_cache, _user_jobs, untracked, running, pc, lib>>

CacheNext == CallGetMonthTimes \/ CacheClock

CacheSpec == CacheInit /\ [][CacheNext]_vars

\* what the loop over the rows makes of the page of each month
PageTables == [m \in 1..12 |-> ParseRows(Page(m))]

\* a call that finds the cache out of date and whose request comes back with
\* the page of the month
RefreshSucceeds ==
    /\ NeedsRefresh(_prayer_cache, now)
    /\ \E g \in {Refresh(_prayer_cache, now, PageTables[MonthOf(now.dn)])} :
         /\ _prayer_cache' = g.cache
         /\ last' = [Last("get_month_times", 0) EXCEPT
                       !.fetches = g.fetches, !.failed = g.failed,
                       !.had = g.had, !.ret = g.ret, !.exc = ~g.ret.ok, !.ran = TRUE]
    /\ UNCHANGED <<now, db, _user_jobs, untracked, running, pc, lib>>

\* any later day of the first LiveMonths months, at either of two instants
\* of it
LiveClock ==
    /\ \E dn \in now.dn..(FirstDay(LiveMonths) - 1), p \in {Midnight, Midnight + 1} :
         /\ After([dn |-> dn, tod |-> p], now)
         /\ now' = [dn |-> dn, tod |-> p]
    /\ last' = Last("tick", 0)
    /\ UNCHANGED <<db, _prayer_cache, _user_jobs, untracked, running, pc, lib>>

LiveNext == RefreshSucceeds \/ CallGetMonthTimes \/ LiveClock

\* get_month_times keeps being called (every midnight by the daily jobs, and
\* by every command), and of the requests made while the cache is out of date
\* one comes back with the page in the end
LiveSpec ==
    /\ CacheInit
    /\ [][LiveNext]_vars
    /\ WF_vars(RefreshSucceeds)

----------------------------------------------------------------------------
(* /today and /tomorrow, and the run of the queries: the process starts,   *)
(* users start and stop and ask, on any day of the first QueryMonths       *)
(* months, whatever the requests for the page come back with.              *)

\* [f"*{name}*: {time[row]}" for name, time in zip(prayer_names, times)]:
\* TRUE if every time list read has the row (0-based)
RowsThere(times, row) ==
    \A k \in 1..Len(times) : k <= NumPrayers => row + 1 <= Len(times[k])

\* what send_todays_times does with the table: the message, or the exception
TodaysReply(times, t) ==
    IF RowsThere(times, DayOf(t.dn) - 1) THEN Ok(Reply("today's times")) ELSE Raised

\* what send_tomorrows_times does with the table
TomorrowsReply(times, t) ==
    IF DayOf(t.dn) >= days_in_month(t.dn) THEN Ok(Reply("not on the last day"))
    ELSE IF RowsThere(times, DayOf(t.dn)) THEN Ok(Reply("tomorrow's times"))
    ELSE Raised

\* the record of a query, given what get_month_times did (g) and what the
\* handler made of the table (r)
Queried(op, u, g, r) ==
    [Last(op, u) EXCEPT
       !.fetches = g.fetches,
       !.exc = ~r.ok,
       !.ran = r.ok,
       !.reply = IF r.ok THEN r.v ELSE NoReply]

\* /today
send_todays_times(u) ==
    /\ pc = "polling"
    /\ \E fetch \in RequestOutcomes(_prayer_cache, now) :
         \E g \in {get_month_times(_prayer_cache, now, fetch)} :
             /\ _prayer_cache' = g.cache
             /\ last' = Queried("today", u, g,
                                IF g.ret.ok THEN TodaysReply(g.ret.v, now) ELSE Raised)
    /\ UNCHANGED <<now, db, _user_jobs, untracked, running, pc, lib>>

\* /tomorrow
send_tomorrows_times(u) ==
    /\ pc = "polling"
    /\ \E fetch \in RequestOutcomes(_prayer_cache, now) :
         \E g \in {get_month_times(_prayer_cache, now, fetch)} :
             /\ _prayer_cache' = g.cache
             /\ last' = Queried("tomorrow", u, g,
                                IF g.ret.ok THEN TomorrowsReply(g.ret.v, now) ELSE Raised)
    /\ UNCHANGED <<now, db, _user_jobs, untracked, running, pc, lib>>

\* any later day of the first QueryMonths months, at midnight or a minute
\* later
QueryClock ==
    /\ pc = "polling"
    /\ \E dn \in now.dn..(FirstDay(QueryMonths) - 1), p \in {Midnight, Midnight + 1} :
         /\ After([dn |-> dn, tod |-> p], now)
         /\ now' = [dn |-> dn, tod |-> p]
    /\ last' = Last("tick", 0)
    /\ UNCHANGED <<db, _prayer_cache, _user_jobs, untracked, running, pc, lib>>

QueryNext ==
    \/ Boot
    \/ \E u \in Users : Start(u)
    \/ \E u \in Users : Stop(u)
    \/ \E u \in Users : send_todays_times(u)
    \/ \E u \in Users : send_tomorrows_times(u)
    \/ \E u \in Users, q \in Requests : send_next_prayer(u, q)
    \/ QueryClock

QuerySpec == Init /\ [][QueryNext]_vars

----------------------------------------------------------------------------
(* The callback of the daily job on the thread of the job queue, while the  *)
(* handlers run on the thread of the dispatcher: the callback is two       *)
(* steps, up to the call of get_month_times and from there on, and a       *)
(* handler may run in between.                                             *)

InGetMonthTimes == "register_todays_prayers, in get_month_times"

\* register_todays_prayers up to the call of get_month_times
RegisterBegin(i) ==
    /\ pc = "polling"
    /\ i \in 1..Len(running)
    /\ running[i].callback = "register_todays_prayers"
    /\ Len(untracked) + NumPrayers <= MaxUntracked
    /\ IF db[running[i].chat_id] = "active"
       THEN /\ running' = [running EXCEPT ![i].callback = InGetMonthTimes]
            /\ _user_jobs' = EnsureEntry(World, running[i].chat_id).uj
            /\ last' = [Last("register begins", running[i].chat_id) EXCEPT !.ran = TRUE]
       ELSE /\ running' = RemoveAt(running, i)
            /\ _user_jobs' = _user_jobs
            /\ last' = [Last("register", running[i].chat_id) EXCEPT
                          !.exc = (db[running[i].chat_id] = "none"),
                          !.raised = (db[running[i].chat_id] = "none")]
    /\ UNCHANGED <<now, db, _prayer_cache, untracked, pc, lib>>

\* register_todays_prayers from the call of get_month_times on
RegisterEnd(i) ==
    /\ pc = "polling"
    /\ i \in 1..Len(running)
    /\ running[i].callback = InGetMonthTimes
    /\ running' = RemoveAt(running, i)
    /\ \E fetch \in RequestOutcomes(_prayer_cache, now) :
         \E res \in {RegisterFrom(World, running[i].chat_id, now,
                                   get_month_times(_prayer_cache, now, fetch))} :
             /\ Install(res.w)
             /\ last' = [Last("register", running[i].chat_id) EXCEPT
                           !.exc = res.exc, !.raised = res.exc,
                           !.fetches = res.fetches,
                           !.ran = res.ran, !.registered = res.registered]
    /\ UNCHANGED <<now, db, pc, lib>>

\* the scheduler starts the callback of a due job that no list holds; the
\* job leaves the queue
UntrackedDue(i) ==
    /\ pc = "polling"
    /\ i \in 1..Len(untracked)
    /\ IsDue(untracked[i], now)
    /\ Len(running) < MaxRunning
    /\ running' = Append(running, [callback |-> untracked[i].callback,
                                   chat_id |-> untracked[i].chat_id,
                                   prayer_name |-> untracked[i].prayer_name])
    /\ untracked' = RemoveAt(untracked, i)
    /\ last' = Last("due", untracked[i].chat_id)
    /\ UNCHANGED <<now, db, _prayer_cache, _user_jobs, pc, lib>>

\* the process starts late in the evening, after the last prayer
RaceInit ==
    /\ now = [dn |-> 0, tod |-> BaseTod[NumPrayers] + 1]
    /\ db \in [Users -> StoreStates]
    /\ _prayer_cache = EmptyCache
    /\ _user_jobs = <<>>
    /\ untracked = <<>>
    /\ running = <<>>
    /\ pc = "boot"
    /\ lib \in {"v12", "v13"}
    /\ last = Last("init", 0)

RaceTick ==
    /\ pc = "polling"
    /\ Len(running) = 0
    /\ \A u \in DOMAIN _user_jobs : \A i \in 1..Len(_user_jobs[u]) :
          ~IsDue(_user_jobs[u][i], now)
    /\ \A i \in 1..Len(untracked) : ~IsDue(untracked[i], now)
    /\ now.dn = 0 \/ now.tod < BaseTod[RacePrayers]
    /\ now' = NextInstant(now)
    /\ last' = Last("tick", 0)
    /\ UNCHANGED <<db, _prayer_cache, _user_jobs, untracked, running, pc, lib>>

RaceNext ==
    \/ Boot
    \/ \E u \in Users : Start(u)
    \/ \E u \in Users : Stop(u)
    \/ \E u \in Users, i \in 1..(7 * MaxDays + 7) : JobDue(u, i)
    \/ \E i \in 1..MaxUntracked : UntrackedDue(i)
    \/ \E i \in 1..MaxRunning : RegisterBegin(i)
    \/ \E i \in 1..MaxRunning : RegisterEnd(i)
    \/ \E i \in 1..MaxRunning : remind_next_prayer(i)
    \/ RaceTick

RaceSpec == RaceInit /\ [][RaceNext]_vars

----------------------------------------------------------------------------
(* get_month_times called from two threads: a call is a frame with the     *)
(* line it has reached, the time it read on entry and the table it built,  *)
(* and the four assignments to the cache are four steps.                   *)

Frame(line, t, data) ==
    [callback |-> "get_month_times", chat_id |-> 0, prayer_name |-> "",
     line |-> line, t |-> t, data |-> data]

\* the refresh test, on entry
GetMonthTimesEnter ==
    /\ Len(running) < MaxCallers
    /\ IF NeedsRefresh(_prayer_cache, now)
       THEN /\ running' = Append(running, Frame(95, now, None))
            /\ last' = Last("enter", 0)
       ELSE /\ running' = running
            /\ last' = [Last("get_month_times", 0) EXCEPT
                          !.ret = Ok(_prayer_cache.data), !.had = TRUE, !.ran = TRUE]
    /\ UNCHANGED <<now, db, _prayer_cache, _user_jobs, untracked, pc, lib>>

\* what a frame does with the rows the request came back with: on to the
\* assignments, or the except branch
Requested(i, parsed) ==
    IF parsed.ok /\ Len(parsed.v) > 0
    THEN /\ running' = [running EXCEPT ![i].line = 128, ![i].data = Transpose(parsed.v)]
         /\ last' = [Last("fetched", 0) EXCEPT !.fetches = 1]
    ELSE /\ running' = RemoveAt(running, i)
         /\ last' = [Last("get_month_times", 0) EXCEPT
                       !.fetches = 1, !.failed = TRUE, !.ran = TRUE,
                       !.had = (_prayer_cache.data # None),
                       !.exc = (_prayer_cache.data = None),
                       !.ret = IF _prayer_cache.data # None
                               THEN Ok(_prayer_cache.data) ELSE Raised]

\* the request and the loop over the rows
GetMonthTimesRequest(i) ==
    /\ i \in 1..Len(running)
    /\ running[i].callback = "get_month_times"
    /\ running[i].line = 95
    /\ \E fetch \in FetchOutcomes(now) :
          Requested(i, IF fetch.ok THEN ParseRows(fetch.rows) ELSE Raised)
    /\ UNCHANGED <<now, db, _prayer_cache, _user_jobs, untracked, pc, lib>>

\* one of the four assignments under "Update cache"
GetMonthTimesAssign(i) ==
    /\ i \in 1..Len(running)
    /\ running[i].callback = "get_month_times"
    /\ running[i].line \in 128..131
    /\ _prayer_cache' =
          IF running[i].line = 128 THEN [_prayer_cache EXCEPT !.data = running[i].data]
          ELSE IF running[i].line = 129
          THEN [_prayer_cache EXCEPT !.month = MonthOf(running[i].t.dn)]
          ELSE IF running[i].line = 130
          THEN [_prayer_cache EXCEPT !.year = YearOf(running[i].t.dn)]
          ELSE [_prayer_cache EXCEPT !.last_fetched = running[i].t]
    /\ running' = [running EXCEPT ![i].line = IF @ = 131 THEN 146 ELSE @ + 1]
    /\ last' = Last("assigned", 0)
    /\ UNCHANGED <<now, db, _user_jobs, untracked, pc, lib>>

\* return _prayer_cache['data']
GetMonthTimesReturn(i) ==
    /\ i \in 1..Len(running)
    /\ running[i].callback = "get_month_times"
    /\ running[i].line = 146
    /\ running' = RemoveAt(running, i)
    /\ last' = [Last("get_month_times", 0) EXCEPT
                  !.fetches = 1, !.ran = TRUE, !.ret = Ok(_prayer_cache.data)]
    /\ UNCHANGED <<now, db, _prayer_cache, _user_jobs, untracked, pc, lib>>

\* midnight of the next day, whatever the calls are doing
RefreshClock ==
    /\ now.dn + 1 < FirstDay(RefreshMonths)
    /\ now' = [dn |-> now.dn + 1, tod |-> Midnight]
    /\ last' = Last("tick", 0)
    /\ UNCHANGED <<db, _prayer_cache, _user_jobs, untracked, running, pc, lib>>

RefreshNext ==
    \/ GetMonthTimesEnter
    \/ \E i \in 1..MaxCallers : GetMonthTimesRequest(i)
    \/ \E i \in 1..MaxCallers : GetMonthTimesAssign(i)
    \/ \E i \in 1..MaxCallers : GetMonthTimesReturn(i)
    \/ RefreshClock

RefreshSpec == CacheInit /\ [][RefreshNext]_vars

----------------------------------------------------------------------------
(* One refresh of an empty cache, for every page whose rows are each as    *)
(* the site shows them, too short, or with dashes for a time.              *)

RowKinds == {"good", "short", "dashes first", "dashes third"}

\* row d of the page of month m, in one of the kinds
RowOfKind(m, d, kind) ==
    IF kind = "short" THEN SubSeq(PageRow(m, d), 1, 7)
    ELSE IF kind = "dashes first" THEN [PageRow(m, d) EXCEPT ![3] = Dashes]
    ELSE IF kind = "dashes third" THEN [PageRow(m, d) EXCEPT ![5] = Dashes]
    ELSE PageRow(m, d)

PagesOfKinds(m) ==
    {[d \in 1..MonthLength(m) |-> RowOfKind(m, d, kinds[d])] :
        kinds \in [1..MonthLength(m) -> RowKinds]}

\* the first day of a month, an empty cache, and the page the request will
\* come back with
ParseInit ==
    /\ now \in {[dn |-> FirstDay(n), tod |-> Midnight] : n \in 0..(RefreshMonths - 1)}
    /\ db = [u \in Users |-> "none"]
    /\ _prayer_cache = EmptyCache
    /\ _user_jobs = <<>>
    /\ untracked = <<>>
    /\ running = <<>>
    /\ pc = "polling"
    /\ lib = "v13"
    /\ \E rows \in PagesOfKinds(MonthOf(now.dn)) :
         last = [Last("page", 0) EXCEPT !.arg = rows]

\* get_month_times() when the request comes back with the page
CallRefresh ==
    /\ last.op = "page"
    /\ \E g \in {get_month_times(_prayer_cache, now, [ok |-> TRUE, rows |-> last.arg])} :
         /\ _prayer_cache' = g.cache
         /\ last' = [Last("refresh", 0) EXCEPT
                       !.arg = last.arg, !.fetches = g.fetches, !.failed = g.failed,
                       !.had = g.had, !.ret = g.ret, !.exc = ~g.ret.ok, !.ran = TRUE]
    /\ UNCHANGED <<now, db, _user_jobs, untracked, running, pc, lib>>

ParseNext == CallRefresh

ParseSpec == ParseInit /\ [][ParseNext]_vars

----------------------------------------------------------------------------
(* shift_time alone: called with any time of the day and any of the shifts, *)
(* and then called on what it returned with the opposite shift.            *)

Deltas == (-MaxShift..MaxShift) \cup {MinutesPerDay + 1, -(MinutesPerDay + 1)}

\* the arguments of the call: a time HH:MM and a shift
ShiftInit ==
    /\ now = [dn |-> 0, tod |-> Midnight]
    /\ db = [u \in Users |-> "none"]
    /\ _prayer_cache = EmptyCache
    /\ _user_jobs = <<>>
    /\ untracked = <<>>
    /\ running = <<>>
    /\ pc = "polling"
    /\ lib = "v13"
    /\ \E h \in 0..23, m \in 0..59, delta \in Deltas :
         last = [Last("arguments", 0) EXCEPT !.arg = <<HHMM(h, m), delta>>]

\* shift_time(time_str, delta)
CallShiftTime ==
    /\ last.op = "arguments"
    /\ last' = [Last("shift_time", 0) EXCEPT
                   !.arg = last.arg,
                   !.ret = shift_time(last.arg[1], last.arg[2])]
    /\ UNCHANGED <<now, db, _prayer_cache, _user_jobs, untracked, running, pc, lib>>

\* shift_time(shifted, -delta) on what the call before returned
CallShiftBack ==
    /\ last.op = "shift_time"
    /\ last.ret.ok
    /\ last' = [Last("shift_back", 0) EXCEPT
                   !.arg = <<last.arg[1], last.arg[2], last.ret.v>>,
                   !.ret = shift_time(last.ret.v, -last.arg[2])]
    /\ UNCHANGED <<now, db, _prayer_cache, _user_jobs, untracked, running, pc, lib>>

ShiftNext == CallShiftTime \/ CallShiftBack

ShiftSpec == ShiftInit /\ [][ShiftNext]_vars

----------------------------------------------------------------------------
(* Properties.  The table a handler worked with is the cached one: the     *)
(* cache holds what get_month_times returned whenever it returned a table. *)

HasRow(d) ==
    /\ _prayer_cache.data # None
    /\ \A k \in 1..NumPrayers : d <= Len(_prayer_cache.data[k])

\* minute of the day of prayer k on row d of the cached table
CachedTod(k, d) == ParseTimeOfDay(_prayer_cache.data[k][d]).v

LiveDaily(u) ==
    {i \in job_queue(_user_jobs, u) : _user_jobs[u][i].daily}

LiveOneShot(u, name) ==
    {i \in job_queue(_user_jobs, u) :
        ~_user_jobs[u][i].daily /\ _user_jobs[u][i].prayer_name = name}

\* C1: when /start returns, the user is active and has a live daily job and a
\* live one-shot job for each of today's prayers that has not passed yet,
\* whatever the user was before (unknown, inactive or already active).
C1_ActivateArms ==
    last.op = "start" /\ ~last.exc =>
        /\ db[last.uid] = "active"
        /\ LiveDaily(last.uid) # {}
        /\ HasRow(DayOf(now.dn)) =>
              \A k \in 1..NumPrayers :
                  CachedTod(k, DayOf(now.dn)) > now.tod =>
                      LiveOneShot(last.uid, prayer_names[k]) # {}

\* C2: when cancel_user_jobs has returned (in /stop, and in /start of a user
\* that is already active, which does nothing after it), the user has no entry
\* in _user_jobs and no job in the queue, whether the jobs were pending or were
\* one-shot jobs that had already run.
C2_CancelAllEmpties ==
    \/ last.op = "stop" /\ ~last.exc
    \/ last.op = "start" /\ last.reply.kind = "already activated"
    => /\ last.uid \notin DOMAIN _user_jobs
       /\ job_queue(_user_jobs, last.uid) = {}

\* C3: a "time for <prayer>" message is sent only to a user whose active flag,
\* read from the store when the job fires, is true.
C3_NoReminderUnlessActive ==
    last.reply.kind = "time for" => db[last.uid] = "active"

\* a one-shot job of a user who has stopped fired and sent nothing
C3_Witness ==
    /\ last.op = "remind"
    /\ db[last.uid] = "inactive"
    /\ last.reply = NoReply

\* C4: a user never has more than one live daily job, nor two live one-shot
\* jobs for the same prayer on the same day.
C4_NoDuplicateJobs ==
    \A u \in DOMAIN _user_jobs :
        \A i, k \in job_queue(_user_jobs, u) :
            i < k =>
                /\ ~(_user_jobs[u][i].daily /\ _user_jobs[u][k].daily)
                /\ ~(/\ ~_user_jobs[u][i].daily
                     /\ ~_user_jobs[u][k].daily
                     /\ _user_jobs[u][i].prayer_name = _user_jobs[u][k].prayer_name
                     /\ _user_jobs[u][i].due.dn = _user_jobs[u][k].due.dn)

\* C5: a call of get_month_times whose refresh fails returns the table cached
\* before, of whatever month, and leaves the whole cache as it was; with no
\* table cached it raises and the cache stays empty.
C5_Fallback ==
    [][last'.op = "get_month_times" /\ last'.failed =>
          IF _prayer_cache.data # None
          THEN /\ last'.ret.ok
               /\ last'.ret.v = _prayer_cache.data
               /\ _prayer_cache' = _prayer_cache
          ELSE /\ ~last'.ret.ok
               /\ _prayer_cache' = EmptyCache]_vars

\* a failed refresh in a month other than the cached one returned the cached
\* table
C5_Witness ==
    /\ last.op = "get_month_times"
    /\ last.failed
    /\ last.had
    /\ last.ret.ok
    /\ _prayer_cache.month # MonthOf(now.dn)

\* C6: once a table is cached for the current (month, year), a call of
\* get_month_times makes no request and returns that table, and the cache
\* stays as it was.
C6_CacheIdempotent ==
    [][/\ last'.op = "get_month_times"
       /\ _prayer_cache.data # None
       /\ _prayer_cache.month = MonthOf(now.dn)
       /\ _prayer_cache.year = YearOf(now.dn)
       => /\ last'.fetches = 0
          /\ last'.ret.ok
          /\ last'.ret.v = _prayer_cache.data
          /\ _prayer_cache' = _prayer_cache]_vars

\* a call on a later day of the month the table was fetched in made no request
C6_Witness ==
    /\ last.op = "get_month_times"
    /\ last.fetches = 0
    /\ last.ret.ok
    /\ _prayer_cache.last_fetched.dn < now.dn

\* the table the page of month m yields: the six times of each row, the first
\* two minutes earlier and the fifth two minutes later than shown
ExpectedTod(m, d, k) ==
    BaseTod[k] + RowOffset(m, d, k) + (IF k = 1 THEN -2 ELSE IF k = 5 THEN 2 ELSE 0)

ExpectedTable(m) ==
    [k \in 1..NumPrayers |->
        [d \in 1..MonthLength(m) |->
            HHMM(ExpectedTod(m, d, k) \div 60, ExpectedTod(m, d, k) % 60)]]

\* C7: with a table cached for another (month, year), a call of
\* get_month_times makes exactly one request; if it succeeds the cache is keyed
\* by the current (month, year) and the call returns the table of the page
\* just fetched.
C7_MonthRollover ==
    [][/\ last'.op = "get_month_times"
       /\ _prayer_cache.data # None
       /\ _prayer_cache.month # MonthOf(now.dn) \/ _prayer_cache.year # YearOf(now.dn)
       => /\ last'.fetches = 1
          /\ ~last'.failed =>
                /\ _prayer_cache'.month = MonthOf(now.dn)
                /\ _prayer_cache'.year = YearOf(now.dn)
                /\ _prayer_cache'.data = ExpectedTable(MonthOf(now.dn))
                /\ last'.ret.ok
                /\ last'.ret.v = _prayer_cache'.data]_vars

\* a call with a table of the same month of the year before refreshed it
C7_Witness ==
    /\ last.op = "get_month_times"
    /\ last.had
    /\ last.fetches = 1
    /\ ~last.failed
    /\ _prayer_cache.month = Epoch.month
    /\ _prayer_cache.year = Epoch.year + 1

\* the prayers of today's row whose time is later than now / not earlier
LaterKinds == {k \in 1..NumPrayers : CachedTod(k, DayOf(now.dn)) > now.tod}

NotEarlierKinds == {k \in 1..NumPrayers : CachedTod(k, DayOf(now.dn)) >= now.tod}

InOrder(seq, S) ==
    /\ \A i, k \in 1..Len(seq) : i < k => seq[i] < seq[k]
    /\ {seq[i] : i \in 1..Len(seq)} = S

Registered ==
    /\ last.op \in {"register", "start"}
    /\ last.ran
    /\ HasRow(DayOf(now.dn))

\* C8 as stated: register_todays_prayers registers a job for exactly the
\* prayers of today's row whose time is strictly later than now, in order.
C8_RegistersStrictlyLater ==
    Registered => InOrder(last.registered, LaterKinds)

\* C8: register_todays_prayers registers a job for exactly the prayers of
\* today's row whose time is not earlier than now, in order, and none for the
\* prayers whose time is earlier.
C8_RegistersNotEarlier ==
    Registered => InOrder(last.registered, NotEarlierKinds)

\* a registration at the very time of a prayer, with earlier prayers skipped
C8_Witness ==
    /\ Registered
    /\ Len(last.registered) \in 1..(NumPrayers - 1)
    /\ \E k \in 1..NumPrayers : CachedTod(k, DayOf(now.dn)) = now.tod

IsLastDay == DayOf(now.dn) = days_in_month(now.dn)

\* C9: /next with a prayer name answers with the next time of that very
\* prayer: today's if it is still ahead, else tomorrow's, and "cannot find"
\* only on the last day of the month; never with the time of another prayer.
C9_NextOfRequestedKind ==
    last.op = "next" /\ last.ran /\ IsPrayerName(last.req) =>
        LET k == PrayerIndex(last.req)
            today == [dn |-> now.dn, tod |-> CachedTod(k, DayOf(now.dn))]
        IN  IF After(today, now)
            THEN last.reply = [kind |-> "next is", label |-> last.req, at |-> today]
            ELSE IF ~IsLastDay
            THEN last.reply = [kind |-> "next is", label |-> last.req,
                               at |-> [dn |-> now.dn + 1,
                                       tod |-> CachedTod(k, DayOf(now.dn) + 1)]]
            ELSE last.reply.kind = "cannot find"

\* today's six prayers, then tomorrow's six unless today is the last day of
\* the month: entry i is prayer ((i - 1) % 6) + 1
Entry(i) ==
    LET k == ((i - 1) % NumPrayers) + 1
        ahead == (i - 1) \div NumPrayers
    IN  [kind |-> prayer_names[k],
         at |-> [dn |-> now.dn + ahead, tod |-> CachedTod(k, DayOf(now.dn) + ahead)]]

NumEntries == IF IsLastDay THEN NumPrayers ELSE 2 * NumPrayers

EntriesAhead == {i \in 1..NumEntries : After(Entry(i).at, now)}

\* C10: /next without a prayer name answers with the earliest entry strictly
\* after now and the prayer of that entry, and with "cannot find" only when
\* there is no such entry.
C10_NextWithoutKind ==
    last.op = "next" /\ last.ran /\ last.req = "" =>
        IF EntriesAhead = {}
        THEN last.reply.kind = "cannot find"
        ELSE LET i == CHOOSE e \in EntriesAhead : \A o \in EntriesAhead : e <= o
             IN  last.reply = [kind |-> "next is", label |-> Entry(i).kind,
                               at |-> Entry(i).at]

\* asked at the very time of today's last prayer, the answer is tomorrow's
\* first prayer
C10_Witness ==
    /\ last.op = "next"
    /\ last.ran
    /\ last.req = ""
    /\ now.tod = CachedTod(NumPrayers, DayOf(now.dn))
    /\ last.reply.kind = "next is"
    /\ last.reply.label = prayer_names[1]
    /\ last.reply.at.dn = now.dn + 1

\* the minute of the day a text of five characters HH:MM names, read digit
\* by digit; -1 if it is no such text
Reads(text) ==
    IF /\ Len(text) = 5
       /\ text[3] = ":"
       /\ \A i \in {1, 2, 4, 5} : IsDigit(text[i])
    THEN 60 * (10 * DigitValue(text[1]) + DigitValue(text[2]))
         + 10 * DigitValue(text[4]) + DigitValue(text[5])
    ELSE -1

\* C11: for a time HH:MM and a shift of d minutes, shift_time returns the
\* zero-padded text of minute (60 * HH + MM + d) mod 1440 of the day, and
\* shifting the result back by d returns the time it started from.
C11_ShiftTime ==
    /\ last.op = "shift_time" =>
          /\ last.ret.ok
          /\ Reads(last.arg[1]) >= 0
          /\ Reads(last.ret.v) = (Reads(last.arg[1]) + last.arg[2]) % MinutesPerDay
    /\ last.op = "shift_back" =>
          /\ last.ret.ok
          /\ last.ret.v = last.arg[1]

\* one minute past midnight moved two minutes back is 23:59, and moving that
\* two minutes on gives one minute past midnight again
C11_Witness ==
    /\ last.op = "shift_back"
    /\ last.arg = <<HHMM(0, 1), -2, HHMM(23, 59)>>
    /\ last.ret.v = <<"0", "0", ":", "0", "1">>

\* the handlers that read the table
ReadsTable ==
    \/ last.op \in {"today", "tomorrow", "next"}
    \/ last.op = "start" /\ last.reply.kind # "already activated"

\* C12: once get_month_times has succeeded, so that a table is cached,
\* register_todays_prayers and the /today, /tomorrow and /next handlers end
\* without an exception on every day of every later month, whatever the later
\* requests come back with.
C12_AvailableOnceCached ==
    ReadsTable /\ _prayer_cache.data # None => ~last.exc /\ ~last.raised

\* C13: a /today, /tomorrow or /next query made while no table is available
\* is answered with a "temporarily unavailable" message, never with no
\* message or an exception.
C13_UnavailableIsAnswered ==
    last.op \in {"today", "tomorrow", "next"} /\ _prayer_cache.data = None =>
        ~last.exc /\ last.reply.kind = "temporarily unavailable"

\* C14: with the callback of the daily job interrupted by /start and /stop
\* at its call of get_month_times, every job in the queue is held by the list
\* of its user, and when the callback ends after a /stop that ran in between
\* (the user was active when it began and is inactive now) it ends without an
\* exception and the user has no job in the queue.
C14_RaceFree ==
    /\ untracked = <<>>
    /\ last.op = "register" /\ last.ran /\ db[last.uid] = "inactive" =>
          /\ ~last.exc
          /\ job_queue(_user_jobs, last.uid) = {}

\* C15: with get_month_times called from two threads, the cached table is
\* always the table of the month the cache is keyed by, while a refresh is
\* under way and when every call has returned.
C15_AtomicRefresh ==
    _prayer_cache.data # None =>
        _prayer_cache.data = ExpectedTable(_prayer_cache.month)

\* a row with at least eight cells whose six time cells all read HH:MM
WellFormedRow(row) ==
    /\ Len(row) >= 8
    /\ \A k \in 3..8 : shift_time(row[k], 0).ok

\* C16: a refresh commits the table of exactly the rows of the page that have
\* six well-formed times, each other row dropped on its own, and fails only
\* when the page has no such row.
C16_RowsDiscardedAlone ==
    last.op = "refresh" =>
        IF SelectSeq(last.arg, WellFormedRow) = <<>>
        THEN last.failed
        ELSE /\ ~last.failed
             /\ _prayer_cache.data =
                  Transpose(ParseRows(SelectSeq(last.arg, WellFormedRow)).v)

\* C17: in every state the list of a user holds only jobs that are still in
\* the queue (a one-shot job that fired has left the list), and at most seven
\* of them, the daily job and one for each prayer.
C17_OnlyLiveJobs ==
    \A u \in DOMAIN _user_jobs :
        /\ \A i \in 1..Len(_user_jobs[u]) : _user_jobs[u][i].scheduled
        /\ Len(_user_jobs[u]) <= NumPrayers + 1

RemovalRaises(job) == ~schedule_removal_returns(job)

\* C18: cancel_user_jobs (in /stop, and in /start of a user that is already
\* active) raises nothing, leaves in the list exactly the jobs whose removal
\* from the queue raised, in their order, and deletes the entry of the user if
\* and only if no job is left.
C18_CancelLoop ==
    [][/\ \/ last'.op = "stop" /\ ~last'.exc
          \/ last'.op = "start" /\ last'.reply.kind = "already activated"
       /\ last'.uid \in DOMAIN _user_jobs
       => /\ ~last'.raised
          /\ IF SelectSeq(_user_jobs[last'.uid], RemovalRaises) = <<>>
             THEN last'.uid \notin DOMAIN _user_jobs'
             ELSE /\ last'.uid \in DOMAIN _user_jobs'
                  /\ _user_jobs'[last'.uid] =
                       SelectSeq(_user_jobs[last'.uid], RemovalRaises)]_vars

\* a /stop has returned whose loop met a job that could not be removed and
\* went on to cancel the daily job and the later prayers: what is left is the
\* jobs that had run
C18_Witness ==
    /\ last.op = "stop"
    /\ ~last.exc
    /\ lib = "v13"
    /\ last.uid \in DOMAIN _user_jobs
    /\ Len(_user_jobs[last.uid]) >= 2
    /\ \A i \in 1..Len(_user_jobs[last.uid]) : ~_user_jobs[last.uid][i].scheduled

\* C19: register_todays_prayers for a stored user who is not active makes no
\* request, schedules no job, raises nothing and leaves _user_jobs, the jobs
\* outside it and the cache as they were, when the daily job fires; and when
\* the process starts, such a user is left with the daily job the start-up loop
\* made for them and nothing else, and the cache is untouched if no user is
\* active.
C19_InactiveDoesNothing ==
    [][/\ last'.op = "register" /\ db[last'.uid] = "inactive" =>
            /\ last'.fetches = 0
            /\ last'.registered = <<>>
            /\ ~last'.raised
            /\ _user_jobs' = _user_jobs
            /\ untracked' = untracked
            /\ _prayer_cache' = _prayer_cache
       /\ last'.op = "boot" =>
            /\ \A u \in Users :
                  db[u] = "inactive" /\ u \in DOMAIN _user_jobs' =>
                      _user_jobs'[u] = <<DailyJob(u, now)>>
            /\ (\A u \in Users : db[u] # "active") =>
                  _prayer_cache' = _prayer_cache]_vars

\* the daily job that the start-up loop made for a user who is not active has
\* fired at a midnight and its callback has returned
C19_Witness ==
    /\ last.op = "register"
    /\ db[last.uid] = "inactive"
    /\ now.dn >= 1
    /\ now.tod = Midnight
    /\ LiveDaily(last.uid) # {}

\* the call just made could not refresh and returned the table of an earlier
\* month
FellBack ==
    /\ last.op = "get_month_times"
    /\ last.failed
    /\ last.ret.ok

\* the cache is keyed by the current month and year and holds that month's table
Recovered ==
    /\ ~NeedsRefresh(_prayer_cache, now)
    /\ _prayer_cache.data = ExpectedTable(MonthOf(now.dn))

\* C20: a call that finds the cache keyed by another month makes a request,
\* however many calls before it failed; and if calls keep being made and a
\* request comes back with the page in the end, a call that fell back to an old
\* table is followed by a state in which the cache is keyed by the current month
\* and year and holds the table of that month.
C20_RecoversAfterFallback ==
    /\ [][last'.op = "get_month_times" /\ NeedsRefresh(_prayer_cache, now) =>
             last'.fetches = 1]_vars
    /\ FellBack ~> Recovered

\* a call found a table cached under an earlier month, made a request that
\* came back with the page, and left the cache keyed by the current month
C20_Witness ==
    /\ last.op = "get_month_times"
    /\ last.had
    /\ last.fetches = 1
    /\ ~last.failed
    /\ Recovered
    /\ _prayer_cache.last_fetched = now
    /\ now.dn > 0

====
